---- MODULE Spec2Model ----
(***************************************************************************)
(* VortexL2 port-forward management (vortexl2/forward.py).                 *)
(*                                                                         *)
(* ForwardManager drives systemd units that run one socat relay per        *)
(* forwarded port.  The model keeps the declared port list of the tunnel   *)
(* configuration, the unit files under /etc/systemd/system, and the        *)
(* active / enabled flags systemd holds per unit.  Every systemctl call    *)
(* and every file operation may fail; a failed call changes nothing.       *)
(*                                                                         *)
(* Text is modelled as sequences of one-character strings so that          *)
(* sanitising, formatting, splitting and parsing are computed character    *)
(* by character, as the Python code computes them.                         *)
(***************************************************************************)
EXTENDS Integers, Sequences, FiniteSets, TLC

(***************************************************************************)
(* Characters and strings                                                  *)
(***************************************************************************)

DigitChars == <<"0", "1", "2", "3", "4", "5", "6", "7", "8", "9">>

LowerChars ==
  <<"a", "b", "c", "d", "e", "f", "g", "h", "i", "j", "k", "l", "m",
    "n", "o", "p", "q", "r", "s", "t", "u", "v", "w", "x", "y", "z">>

UpperChars ==
  <<"A", "B", "C", "D", "E", "F", "G", "H", "I", "J", "K", "L", "M",
    "N", "O", "P", "Q", "R", "S", "T", "U", "V", "W", "X", "Y", "Z">>

Range(s) == {s[i] : i \in 1..Len(s)}

\* the whitespace str.strip() removes
SpaceChars == {" ", "\t", "\n"}

\* str.isalnum on one character
IsAlnum(c) == c \in Range(DigitChars) \cup Range(LowerChars) \cup Range(UpperChars)

IsDigit(c) == c \in Range(DigitChars)

\* str.lower on one character
LowerChar(c) ==
  IF c \in Range(UpperChars)
    THEN LowerChars[CHOOSE i \in 1..Len(UpperChars) : UpperChars[i] = c]
    ELSE c

\* str.lower
Lower(s) == [i \in 1..Len(s) |-> LowerChar(s[i])]

\* the elements of s at the positions in I, in order
Pick(s, I) ==
  [k \in 1..Cardinality(I) |-> s[CHOOSE i \in I : Cardinality({j \in I : j < i}) = k - 1]]

\* s without its leading and trailing characters that are in chars
StripChars(s, chars) ==
  LET keep == {i \in 1..Len(s) : s[i] \notin chars}
  IN Pick(s, {i \in 1..Len(s) : \E a, b \in keep : a <= i /\ i <= b})

\* str.strip(): leading and trailing whitespace removed
Strip(s) == StripChars(s, SpaceChars)

\* str.strip("-")
StripDash(s) == StripChars(s, {"-"})

\* re.sub(r"-+", "-", s): every run of "-" becomes a single "-"
CollapseDashes(s) ==
  Pick(s, {i \in 1..Len(s) : ~(s[i] = "-" /\ i > 1 /\ s[i - 1] = "-")})

RECURSIVE NatStr(_)
NatStr(n) ==
  IF n < 10 THEN <<DigitChars[n + 1]>>
  ELSE NatStr(n \div 10) \o <<DigitChars[(n % 10) + 1]>>

\* f"{port}" for an int
IntStr(n) == IF n < 0 THEN <<"-">> \o NatStr(-n) ELSE NatStr(n)

DigitVal(c) == (CHOOSE i \in 1..Len(DigitChars) : DigitChars[i] = c) - 1

\* the body of an int literal: digits, single underscores only between digits
DigitsOk(s) ==
  /\ s # <<>>
  /\ \A i \in 1..Len(s) :
       \/ IsDigit(s[i])
       \/ s[i] = "_" /\ 1 < i /\ i < Len(s) /\ IsDigit(s[i - 1]) /\ IsDigit(s[i + 1])

RECURSIVE DigitsVal(_, _)
\* the value of the first n digits of ds
DigitsVal(ds, n) ==
  IF n = 0 THEN 0 ELSE 10 * DigitsVal(ds, n - 1) + DigitVal(ds[n])

\* int(s): [ok |-> FALSE] stands for ValueError
ParseInt(s) ==
  LET t == Strip(s)
      signed == t # <<>> /\ Head(t) \in {"+", "-"}
      body == IF signed THEN Tail(t) ELSE t
      digits == Pick(body, {i \in 1..Len(body) : body[i] # "_"})
      val == DigitsVal(digits, Len(digits))
  IN IF DigitsOk(body)
       THEN [ok |-> TRUE, val |-> IF signed /\ Head(t) = "-" THEN -val ELSE val]
       ELSE [ok |-> FALSE, val |-> 0]

\* s.split(","): the pieces between the commas
SplitComma(s) ==
  LET cut == {0, Len(s) + 1} \cup {i \in 1..Len(s) : s[i] = ","}
      starts == cut \ {Len(s) + 1}
  IN [k \in 1..Cardinality(starts) |->
        LET a == CHOOSE i \in starts : Cardinality({j \in starts : j < i}) = k - 1
            b == CHOOSE i \in cut : i > a /\ \A j \in cut : j > a => i <= j
        IN SubSeq(s, a + 1, b - 1)]

\* [p.strip() for p in ports_str.split(",") if p.strip()]
PortTokens(ports_str) ==
  LET pieces == SplitComma(ports_str)
      stripped == [i \in 1..Len(pieces) |-> Strip(pieces[i])]
  IN Pick(stripped, {i \in 1..Len(stripped) : stripped[i] # <<>>})

(***************************************************************************)
(* Unit names, unit paths and unit text                                    *)
(***************************************************************************)

FallbackName == <<"t", "u", "n", "n", "e", "l">>

UnitPrefix == <<"v", "o", "r", "t", "e", "x", "l", "2", "-", "f", "w", "d", "-">>

UnitSuffix == <<".", "s", "e", "r", "v", "i", "c", "e">>

SanitizeChar(c) == IF IsAlnum(c) \/ c \in {"-", "_"} THEN c ELSE "-"

\* the mutant trims the dashes before it replaces the other characters
_sanitize_unit_part_trim_first(s) ==
  LET s1 == StripDash(Lower(Strip(s)))
      s2 == [i \in 1..Len(s1) |-> SanitizeChar(s1[i])]
      s3 == CollapseDashes(s2)
  IN IF s3 = <<>> THEN FallbackName ELSE s3

\* the mutant has no fallback for an empty result
_sanitize_unit_part_no_fallback(s) ==
  LET s1 == Lower(Strip(s))
      s2 == [i \in 1..Len(s1) |-> SanitizeChar(s1[i])]
  IN StripDash(CollapseDashes(s2))

_sanitize_unit_part(s) ==
  LET s1 == Lower(Strip(s))
      s2 == [i \in 1..Len(s1) |-> SanitizeChar(s1[i])]
      s3 == StripDash(CollapseDashes(s2))
  IN IF s3 = <<>> THEN FallbackName ELSE s3

\* f"vortexl2-fwd-{port}.service"
LegacyId(port) == UnitPrefix \o IntStr(port) \o UnitSuffix

\* the mutant joins the name and the port without the "-"
CanonicalId_joined(name, port) ==
  UnitPrefix \o _sanitize_unit_part(name) \o IntStr(port) \o UnitSuffix

\* f"vortexl2-fwd-{tname}-{port}.service", tname the sanitised tunnel name
CanonicalId(name, port) ==
  UnitPrefix \o _sanitize_unit_part(name) \o <<"-">> \o IntStr(port) \o UnitSuffix

(***************************************************************************)
(* Bounds and input pools                                                  *)
(***************************************************************************)

\* at most this many distinct external calls fail during one call of the manager
MaxFaults == 1

PortPool == {8080, 9090}

TunnelName == <<"H", "q", " ", "1">>

NoIp == <<>>

IpA == <<"1", "0", ".", "0", ".", "0", ".", "2">>

IpB == <<"1", "0", ".", "0", ".", "0", ".", "3">>

ListenAny == <<"0", ".", "0", ".", "0", ".", "0">>

ListenLo == <<"1", "2", "7", ".", "0", ".", "0", ".", "1">>

\* the tunnel configurations the operator may set
ConfigPool ==
  { [name |-> TunnelName, listen_ip |-> ListenAny, remote_forward_ip |-> NoIp],
    [name |-> TunnelName, listen_ip |-> ListenAny, remote_forward_ip |-> IpA],
    [name |-> TunnelName, listen_ip |-> ListenLo, remote_forward_ip |-> IpB] }

\* "8080, abc, 9090"
InputExample ==
  <<"8", "0", "8", "0", ",", " ", "a", "b", "c", ",", " ", "9", "0", "9", "0">>

\* the batch input strings tried:
\*   "8080, abc, 9090"   ""   " , ,"   "9090,8080,9090"   "+80_80,0x1f"
InputPool ==
  { InputExample,
    <<>>,
    <<" ", ",", " ", ",">>,
    <<"9", "0", "9", "0", ",", "8", "0", "8", "0", ",", "9", "0", "9", "0">>,
    <<"+", "8", "0", "_", "8", "0", ",", "0", "x", "1", "f">> }

\* the ports the old version of the program had set up
LegacyPorts == {8080}

\* tunnel names of up to this many characters are tried on the naming functions
MaxNameLen == 3

\* a letter, a capital, a digit, the two characters kept besides letters and digits,
\* and a character that is replaced (and stripped at the ends)
NameChars == {"a", "B", "1", "-", "_", " "}

NameStrings == UNION { [1..k -> NameChars] : k \in 0..MaxNameLen }

\* the tunnel names tried on the naming functions
NameInputs == NameStrings \cup {FallbackName, TunnelName}

\* the ports tried on the naming functions
NamePorts == {-5, 1, 5, 15}

(***************************************************************************)
(* The names, texts and parses the calls need, computed once for the pools *)
(***************************************************************************)

NamePool == { c.name : c \in ConfigPool }

ServiceNames == [n \in NamePool |-> [p \in PortPool |-> CanonicalId(n, p)]]

LegacyNames == [p \in PortPool |-> LegacyId(p)]

PortTexts == [p \in PortPool |-> IntStr(p)]

TokenTable == [s \in InputPool |-> PortTokens(s)]

ParseTable == [t \in UNION { Range(TokenTable[s]) : s \in InputPool } |-> ParseInt(t)]

\* the canonical identifiers of all the names and ports tried, each with the
\* sanitised name it was made of
CanonicalIds ==
  { [name |-> n, tname |-> _sanitize_unit_part(n), port |-> p, id |-> CanonicalId(n, p)] :
      n \in NameInputs, p \in NamePorts }

\* the legacy identifiers of all the ports tried
LegacyIds == { [port |-> p, id |-> LegacyId(p)] : p \in NamePorts }

\* f"{port}"
PortText(port) == PortTexts[port]

_legacy_service_name(port) == LegacyNames[port]

_get_service_name(cfg, port) == ServiceNames[cfg.name][port]

\* every unit file lives in SYSTEMD_DIR, so a path is identified by the unit name
_get_service_path(cfg, port) == _get_service_name(cfg, port)

_legacy_service_path(port) == _legacy_service_name(port)

\* SERVICE_TEMPLATE.format(...): the fixed text with the four values filled in
SERVICE_TEMPLATE(tunnel, port, remote_ip, listen_ip) ==
  << "[Unit]\nDescription=VortexL2 Port Forward - ", tunnel, " - Port ", PortText(port),
     "\nAfter=network.target\nRequires=network.target\n\n[Service]\nType=simple\nExecStart=/usr/bin/socat TCP4-LISTEN:",
     PortText(port), ",bind=", listen_ip, ",reuseaddr,fork TCP4:", remote_ip, ":", PortText(port),
     "\nRestart=always\nRestartSec=5\n\n[Install]\nWantedBy=multi-user.target\n" >>

RECURSIVE SubsetsUpTo(_, _)
SubsetsUpTo(K, n) ==
  IF n = 0 THEN {{}}
  ELSE LET S == SubsetsUpTo(K, n - 1)
       IN S \cup { s \cup {k} : s \in S, k \in K }

\* the external calls that may fail during one call: the commands canonCmds on the
\* canonical units of ports and legacyCmds on their legacy units.  A stop, disable
\* or unlink of a unit systemd does not know and whose file is absent fails or is
\* skipped whatever is chosen, so it is left out.
UsefulKeys(w, cmds, u) ==
  { c \in cmds : c \in {"stop", "disable", "unlink"} =>
                   (u \in DOMAIN w.files \/ u \in w.active \/ u \in w.enabled) } \X {u}

FaultKeys(cfg, w, ports, canonCmds, legacyCmds) ==
  UNION { UsefulKeys(w, canonCmds, _get_service_name(cfg, p))
            \cup UsefulKeys(w, legacyCmds, _legacy_service_name(p)) : p \in ports }

FaultSets(K) == SubsetsUpTo(K, MaxFaults)

ErrOut == <<"e", "r", "r", "o", "r">>

\* what "systemctl is-active" prints for an active unit
ActiveOut == <<"a", "c", "t", "i", "v", "e">>

\* what "systemctl is-enabled" prints for an enabled unit
EnabledOut == <<"e", "n", "a", "b", "l", "e", "d">>

\* the defaults of list_forwards
Inactive == <<"i", "n", "a", "c", "t", "i", "v", "e">>

Disabled == <<"d", "i", "s", "a", "b", "l", "e", "d">>

NoUnit == <<>>

(***************************************************************************)
(* The world a call acts on: w = [ports, files, active, enabled, log]      *)
(*   ports    config.forwarded_ports, a list                               *)
(*   files    the unit files: path |-> text                                *)
(*   active   the units systemd reports active                             *)
(*   enabled  the units systemd reports enabled                            *)
(*   log      the external calls made so far by the running call           *)
(***************************************************************************)

\* e, once v has been evaluated: a call works on the world its predecessor has
\* left, so the world is computed before the call's own work starts
Now(v, e) == IF v = v THEN e ELSE e

Logged(w, cmd, unit, ok, fault) ==
  [w EXCEPT !.log = Append(@, [cmd |-> cmd, unit |-> unit, ok |-> ok, fault |-> fault])]

\* systemd knows a unit when its file exists or it still holds state for it
Loaded(w, unit) == unit \in DOMAIN w.files \/ unit \in w.active \/ unit \in w.enabled

\* run_command("systemctl <cmd> <unit>"): F holds the calls that fail (time out)
run_command(w, cmd, unit, F) ==
  LET fault == <<cmd, unit>> \in F
      able == CASE cmd \in {"stop", "disable"} -> Loaded(w, unit)
                [] cmd \in {"enable --now", "start", "restart"} -> unit \in DOMAIN w.files
                [] cmd = "is-active" -> unit \in w.active
                [] cmd = "is-enabled" -> unit \in w.enabled
                [] OTHER -> TRUE
      ok == ~fault /\ able
      stdout == CASE cmd = "is-active" -> ActiveOut
                  [] cmd = "is-enabled" -> EnabledOut
                  [] OTHER -> <<>>
      w1 == IF ~ok THEN w
            ELSE CASE cmd = "stop" -> [w EXCEPT !.active = @ \ {unit}]
                   [] cmd = "disable" -> [w EXCEPT !.enabled = @ \ {unit}]
                   [] cmd = "enable --now" ->
                        [w EXCEPT !.enabled = @ \cup {unit}, !.active = @ \cup {unit}]
                   [] cmd \in {"start", "restart"} -> [w EXCEPT !.active = @ \cup {unit}]
                   [] OTHER -> w
  IN Now(w, [w |-> Logged(w1, cmd, unit, ok, fault), ok |-> ok,
             out |-> IF ok THEN stdout ELSE ErrOut])

\* path.exists()
path_exists(w, path) ==
  Now(w, [w |-> Logged(w, "exists", path, path \in DOMAIN w.files, FALSE),
          ok |-> path \in DOMAIN w.files])

\* path.unlink()
path_unlink(w, path, F) ==
  LET fault == <<"unlink", path>> \in F
      ok == ~fault /\ path \in DOMAIN w.files
      w1 == IF ok THEN [w EXCEPT !.files = [q \in DOMAIN w.files \ {path} |-> w.files[q]]]
            ELSE w
  IN Now(w, [w |-> Logged(w1, "unlink", path, ok, fault), ok |-> ok])

\* the mutant opens the file for appending
write_file_append(w, path, text, F) ==
  LET fault == <<"write", path>> \in F
      old == IF path \in DOMAIN w.files THEN w.files[path] ELSE <<>>
      w1 == IF fault THEN w ELSE [w EXCEPT !.files = (path :> (old \o text)) @@ w.files]
  IN Now(w, [w |-> Logged(w1, "write", path, ~fault, fault), ok |-> ~fault])

\* with open(path, "w") as f: f.write(text)
write_file(w, path, text, F) ==
  LET fault == <<"write", path>> \in F
      w1 == IF fault THEN w ELSE [w EXCEPT !.files = (path :> text) @@ w.files]
  IN Now(w, [w |-> Logged(w1, "write", path, ~fault, fault), ok |-> ~fault])

\* config.add_port(port)
add_port(w, port) ==
  IF \E i \in 1..Len(w.ports) : w.ports[i] = port THEN w
  ELSE [w EXCEPT !.ports = Append(@, port)]

\* config.remove_port(port)
RECURSIVE Without(_, _)
Without(ports, port) ==
  IF ports = <<>> THEN <<>>
  ELSE IF Head(ports) = port THEN Without(Tail(ports), port)
  ELSE <<Head(ports)>> \o Without(Tail(ports), port)

remove_port(w, port) == [w EXCEPT !.ports = Without(@, port)]

Msg(fmt, args) == [fmt |-> fmt, args |-> args]

NoMsg == Msg("", <<>>)

(***************************************************************************)
(* ForwardManager                                                          *)
(*                                                                         *)
(* A method is a chain of calls, each acting on the world the call before  *)
(* it has left.  Where the code looks at the result of a call more than    *)
(* once (success, output, the world after it), the rest of the method is   *)
(* an operator of its own that takes that result as a parameter.           *)
(***************************************************************************)

\* the mutant stops the legacy unit and deletes its file but does not disable it
decommission_no_disable(w, port, F) ==
  LET legacy_name == _legacy_service_name(port)
      w1 == run_command(w, "stop", legacy_name, F).w
      w3 == path_unlink(w1, _legacy_service_path(port), F).w
  IN run_command(w3, "daemon-reload", NoUnit, F).w

\* the body of "if legacy_path.exists():" in _migrate_legacy_unit
decommission(w, port, F) ==
  LET legacy_name == _legacy_service_name(port)
      w1 == run_command(w, "stop", legacy_name, F).w
      w2 == run_command(w1, "disable", legacy_name, F).w
      w3 == path_unlink(w2, _legacy_service_path(port), F).w
  IN run_command(w3, "daemon-reload", NoUnit, F).w

\* _migrate_legacy_unit once legacy_path.exists() has answered ex
legacy_probed(ex, port, F) == IF ex.ok THEN decommission(ex.w, port, F) ELSE ex.w

_migrate_legacy_unit(w, port, F) ==
  legacy_probed(path_exists(w, _legacy_service_path(port)), port, F)

\* create_forward once enable --now has been run for the unit: the mutant records
\* the port whatever the command reported
create_finish_unchecked(en, port, listen_ip, remote_ip) ==
  [w |-> add_port(en.w, port), ok |-> en.ok,
   msg |-> Msg("Port forward for {port} created (listen {listen_ip} -> {remote_ip}:{port})",
               <<PortText(port), listen_ip, remote_ip>>)]

\* create_forward once enable --now has been run for the unit
create_finish(en, port, listen_ip, remote_ip) ==
  IF ~en.ok
    THEN [w |-> en.w, ok |-> FALSE,
          msg |-> Msg("Failed to start forward for port {port}: {output}",
                      <<PortText(port), en.out>>)]
    ELSE [w |-> add_port(en.w, port), ok |-> TRUE,
          msg |-> Msg("Port forward for {port} created (listen {listen_ip} -> {remote_ip}:{port})",
                      <<PortText(port), listen_ip, remote_ip>>)]

\* create_forward once the write of the unit file has answered wr
create_written(cfg, wr, port, F) ==
  IF ~wr.ok
    THEN [w |-> wr.w, ok |-> FALSE,
          msg |-> Msg("Failed to create service file: {e}", <<ErrOut>>)]
    ELSE LET w2 == run_command(wr.w, "daemon-reload", NoUnit, F).w
             en == run_command(w2, "enable --now", _get_service_name(cfg, port), F)
         IN create_finish(en, port, cfg.listen_ip, cfg.remote_forward_ip)

\* the mutant writes the unit file before it cleans up the legacy unit
provision_write_first(cfg, w, port, F) ==
  LET service_content ==
        SERVICE_TEMPLATE(cfg.name, port, cfg.remote_forward_ip, cfg.listen_ip)
      wr == write_file(w, _get_service_path(cfg, port), service_content, F)
  IN create_written(cfg, [wr EXCEPT !.w = _migrate_legacy_unit(@, port, F)], port, F)

\* create_forward once remote_forward_ip is known to be set
provision(cfg, w, port, F) ==
  LET w1 == _migrate_legacy_unit(w, port, F)
      service_content ==
        SERVICE_TEMPLATE(cfg.name, port, cfg.remote_forward_ip, cfg.listen_ip)
      wr == write_file(w1, _get_service_path(cfg, port), service_content, F)
  IN create_written(cfg, wr, port, F)

\* the mutant cleans up the legacy unit before it looks at the configuration
create_forward_migrate_first(cfg, w, port, F) ==
  IF cfg.remote_forward_ip = NoIp
    THEN [w |-> _migrate_legacy_unit(w, port, F), ok |-> FALSE,
          msg |-> Msg("Remote forward IP not configured", <<>>)]
    ELSE provision(cfg, w, port, F)

create_forward(cfg, w, port, F) ==
  IF cfg.remote_forward_ip = NoIp
    THEN [w |-> w, ok |-> FALSE, msg |-> Msg("Remote forward IP not configured", <<>>)]
    ELSE provision(cfg, w, port, F)

\* the mutant leaves the file where it is
unlink_kept(ex, path, F) == ex.w

\* "if path.exists(): try: path.unlink() except: pass" once path.exists() has
\* answered ex
unlink_if_present(ex, path, F) == IF ex.ok THEN path_unlink(ex.w, path, F).w ELSE ex.w

\* one round of the loop over [new path, legacy path] of remove_forward
remove_file(w, path, F) == unlink_if_present(path_exists(w, path), path, F)

remove_forward(cfg, w, port, F) ==
  LET service_name == _get_service_name(cfg, port)
      legacy_name == _legacy_service_name(port)
      w1 == run_command(w, "stop", service_name, F).w
      w2 == run_command(w1, "disable", service_name, F).w
      w3 == run_command(w2, "stop", legacy_name, F).w
      w4 == run_command(w3, "disable", legacy_name, F).w
      w5 == remove_file(w4, _get_service_path(cfg, port), F)
      w6 == remove_file(w5, _legacy_service_path(port), F)
      w7 == run_command(w6, "daemon-reload", NoUnit, F).w
  IN [w |-> remove_port(w7, port), ok |-> TRUE,
      msg |-> Msg("Port forward for {port} removed", <<PortText(port)>>)]

Line(fmt, tok, msg) == [fmt |-> fmt, port |-> tok, msg |-> msg]

\* results.append(f"Port {port}: {msg}") for the result r of the per-port call
batch_done(st, port, r) ==
  [w |-> r.w,
   results |-> Append(st.results, Line("Port {port}: {msg}", PortText(port), r.msg)),
   visited |-> Append(st.visited, port)]

\* the mutant passes over a token that is no integer without a line
batch_one_silent(cfg, st, port_str, F, op) ==
  LET pr == ParseTable[port_str]
  IN IF pr.ok
       THEN batch_done(st, pr.val, IF op = "add" THEN create_forward(cfg, st.w, pr.val, F)
                                   ELSE remove_forward(cfg, st.w, pr.val, F))
       ELSE st

\* one round of the loop of add_multiple_forwards / remove_multiple_forwards
batch_one(cfg, st, port_str, F, op) ==
  LET pr == ParseTable[port_str]
  IN IF pr.ok
       THEN batch_done(st, pr.val, IF op = "add" THEN create_forward(cfg, st.w, pr.val, F)
                                   ELSE remove_forward(cfg, st.w, pr.val, F))
       ELSE [st EXCEPT !.results =
               Append(@, Line("Port '{port_str}': Invalid port number", port_str, NoMsg))]

RECURSIVE batch_loop(_, _, _, _, _)
\* "for port_str in ports": each round is completed before the next one starts
batch_loop(cfg, st, ports, F, op) ==
  Now(st, IF ports = <<>> THEN st
          ELSE batch_loop(cfg, batch_one(cfg, st, Head(ports), F, op), Tail(ports), F, op))

\* return True, "\n".join(results)
batch_return(st) ==
  [w |-> st.w, ok |-> TRUE, msg |-> NoMsg, results |-> st.results, visited |-> st.visited]

add_multiple_forwards(cfg, w, ports_str, F) ==
  batch_return(batch_loop(cfg, [w |-> w, results |-> <<>>, visited |-> <<>>],
                          TokenTable[ports_str], F, "add"))

remove_multiple_forwards(cfg, w, ports_str, F) ==
  batch_return(batch_loop(cfg, [w |-> w, results |-> <<>>, visited |-> <<>>],
                          TokenTable[ports_str], F, "remove"))

\* the line for the result r of "systemctl start", and the world after it
started(st, r, port) ==
  [st EXCEPT !.w = r.w,
             !.results = Append(@, IF r.ok
                 THEN Line("Port {port}: started", PortText(port), NoMsg)
                 ELSE Line("Port {port}: failed to start - {output}", PortText(port),
                           Msg("{output}", <<r.out>>)))]

\* the mutant drops from the configuration the port it could not recreate
recreated_forget(st, r, port) ==
  [st EXCEPT !.w = IF r.ok THEN r.w ELSE remove_port(r.w, port),
             !.results = Append(@, IF r.ok
                 THEN Line("Port {port}: recreated and started", PortText(port), NoMsg)
                 ELSE Line("Port {port}: failed to recreate - {msg}", PortText(port), r.msg))]

\* the line for the result r of create_forward, and the world after it
recreated(st, r, port) ==
  [st EXCEPT !.w = r.w,
             !.results = Append(@, IF r.ok
                 THEN Line("Port {port}: recreated and started", PortText(port), NoMsg)
                 ELSE Line("Port {port}: failed to recreate - {msg}", PortText(port), r.msg))]

\* the mutant has no fallback: it starts the unit whose file is absent
recreate_absent(cfg, st, w, port, F) ==
  started(st, run_command(w, "start", _get_service_name(cfg, port), F), port)

\* the branch "if not service_path.exists()" shared by start_all and restart_all
recreate(cfg, st, w, port, F) == recreated(st, create_forward(cfg, w, port, F), port)

\* the loop body of start_all_forwards once service_path.exists() has answered ex
start_probed(cfg, st, ex, port, F) ==
  IF ~ex.ok THEN recreate(cfg, st, ex.w, port, F)
  ELSE started(st, run_command(ex.w, "start", _get_service_name(cfg, port), F), port)

\* the loop body of start_all_forwards
start_one(cfg, st, port, F) ==
  LET w1 == _migrate_legacy_unit(st.w, port, F)
  IN start_probed(cfg, st, path_exists(w1, _get_service_path(cfg, port)), port, F)

\* the mutant leaves the legacy unit alone
stopped_canonical_only(st, r, port, new_unit, legacy_unit, F) ==
  [st EXCEPT !.w = r.w,
             !.results = IF r.ok
                 THEN Append(@, Line("Port {port}: stopped ({new_unit})", PortText(port),
                                     Msg("{new_unit}", <<new_unit>>)))
                 ELSE @]

\* the loop body of stop_all_forwards once "systemctl stop {new_unit}" has answered r
stopped(st, r, port, new_unit, legacy_unit, F) ==
  [st EXCEPT !.w = run_command(r.w, "stop", legacy_unit, F).w,
             !.results = IF r.ok
                 THEN Append(@, Line("Port {port}: stopped ({new_unit})", PortText(port),
                                     Msg("{new_unit}", <<new_unit>>)))
                 ELSE @]

\* the loop body of stop_all_forwards
stop_one(cfg, st, port, F) ==
  LET new_unit == _get_service_name(cfg, port)
      legacy_unit == _legacy_service_name(port)
  IN stopped(st, run_command(st.w, "stop", new_unit, F), port, new_unit, legacy_unit, F)

\* the line for the result r of "systemctl restart", and the world after it
restarted(st, r, port) ==
  [st EXCEPT !.w = r.w,
             !.results = Append(@, IF r.ok
                 THEN Line("Port {port}: restarted", PortText(port), NoMsg)
                 ELSE Line("Port {port}: failed - {output}", PortText(port),
                           Msg("{output}", <<r.out>>)))]

\* the loop body of restart_all_forwards once the write of the unit file has
\* answered wr
restart_written(cfg, st, wr, port, F) ==
  IF ~wr.ok
    THEN [st EXCEPT !.w = wr.w,
                    !.results = Append(@, Line("Port {port}: failed to write service file - {e}",
                                               PortText(port), Msg("{e}", <<ErrOut>>)))]
    ELSE LET w2 == run_command(wr.w, "daemon-reload", NoUnit, F).w
         IN restarted(st, run_command(w2, "restart", _get_service_name(cfg, port), F), port)

\* the mutant restarts the unit on the unit file it finds
restart_probed_no_write(cfg, st, ex, port, F) ==
  IF ~ex.ok THEN recreate(cfg, st, ex.w, port, F)
  ELSE IF cfg.remote_forward_ip = NoIp
    THEN [st EXCEPT !.w = ex.w,
                    !.results = Append(@, Line("Port {port}: remote_forward_ip not set",
                                               PortText(port), NoMsg))]
  ELSE restarted(st, run_command(ex.w, "restart", _get_service_name(cfg, port), F), port)

\* the loop body of restart_all_forwards once service_path.exists() has answered ex
restart_probed(cfg, st, ex, port, F) ==
  IF ~ex.ok THEN recreate(cfg, st, ex.w, port, F)
  ELSE IF cfg.remote_forward_ip = NoIp
    THEN [st EXCEPT !.w = ex.w,
                    !.results = Append(@, Line("Port {port}: remote_forward_ip not set",
                                               PortText(port), NoMsg))]
  ELSE LET service_content ==
             SERVICE_TEMPLATE(cfg.name, port, cfg.remote_forward_ip, cfg.listen_ip)
       IN restart_written(cfg, st,
                          write_file(ex.w, _get_service_path(cfg, port), service_content, F),
                          port, F)

\* the loop body of restart_all_forwards
restart_one(cfg, st, port, F) ==
  LET w1 == _migrate_legacy_unit(st.w, port, F)
  IN restart_probed(cfg, st, path_exists(w1, _get_service_path(cfg, port)), port, F)

\* one round of "for port in config.forwarded_ports"
all_one(cfg, st, port, F, op) ==
  LET st1 == CASE op = "start" -> start_one(cfg, st, port, F)
               [] op = "stop" -> stop_one(cfg, st, port, F)
               [] OTHER -> restart_one(cfg, st, port, F)
  IN [st1 EXCEPT !.visited = Append(@, port)]

\* the lines that report a port that could not be served
FailureFmts ==
  { "Port {port}: failed to recreate - {msg}", "Port {port}: failed to start - {output}",
    "Port {port}: remote_forward_ip not set", "Port {port}: failed to write service file - {e}",
    "Port {port}: failed - {output}" }

RECURSIVE for_each_port_abort(_, _, _, _, _)
\* the mutant leaves the loop at the first port that fails
for_each_port_abort(cfg, st, i, F, op) ==
  IF i > Len(st.w.ports) THEN st
  ELSE IF st.results # <<>> /\ st.results[Len(st.results)].fmt \in FailureFmts THEN st
  ELSE for_each_port_abort(cfg, all_one(cfg, st, st.w.ports[i], F, op), i + 1, F, op)

RECURSIVE for_each_port(_, _, _, _, _)
\* "for port in config.forwarded_ports": the list is read again at every round
for_each_port(cfg, st, i, F, op) ==
  IF i > Len(st.w.ports) THEN st
  ELSE for_each_port(cfg, all_one(cfg, st, st.w.ports[i], F, op), i + 1, F, op)

\* the mutant joins the lines whatever their number
all_return_joined(st) ==
  [w |-> st.w, ok |-> TRUE, msg |-> NoMsg, results |-> st.results, visited |-> st.visited]

\* if not results: return True, "No port forwards configured"
\* return True, "\n".join(results)
all_return(st) ==
  [w |-> st.w, ok |-> TRUE,
   msg |-> IF st.results = <<>> THEN Msg("No port forwards configured", <<>>) ELSE NoMsg,
   results |-> st.results, visited |-> st.visited]

\* the shared shape of start_all_forwards, stop_all_forwards, restart_all_forwards
all_forwards(cfg, w, F, op) ==
  all_return(for_each_port(cfg, [w |-> w, results |-> <<>>, visited |-> <<>>], 1, F, op))

start_all_forwards(cfg, w, F) == all_forwards(cfg, w, F, "start")

stop_all_forwards(cfg, w, F) == all_forwards(cfg, w, F, "stop")

restart_all_forwards(cfg, w, F) == all_forwards(cfg, w, F, "restart")

\* forwards.append({"port": ..., "status": ..., "enabled": ..., "remote": ...})
\* once "systemctl is-enabled {active_unit}" has answered en
list_enabled(cfg, st, en, port, status) ==
  [st EXCEPT !.w = en.w,
             !.results = Append(@, [port |-> port, status |-> status,
                                    enabled |-> IF en.ok THEN en.out ELSE Disabled,
                                    remote |-> <<cfg.remote_forward_ip, PortText(port)>>]),
             !.visited = Append(@, port)]

\* the loop body of list_forwards once status and active_unit are settled
list_status(cfg, st, w, port, status, active_unit, F) ==
  list_enabled(cfg, st, run_command(w, "is-enabled", active_unit, F), port, status)

\* the else branch of list_forwards once "systemctl is-active {legacy_unit}" has
\* answered a2
list_legacy_answered(cfg, st, a2, port, F) ==
  list_status(cfg, st, a2.w, port, IF a2.ok THEN a2.out ELSE Inactive,
              IF a2.ok THEN _legacy_service_name(port) ELSE _get_service_name(cfg, port), F)

\* the mutant does not ask for the legacy unit
list_no_fallback(cfg, st, a, port, F) ==
  list_status(cfg, st, a.w, port, IF a.ok THEN a.out ELSE Inactive,
              _get_service_name(cfg, port), F)

\* the loop body of list_forwards once "systemctl is-active {new_unit}" has answered a
list_new_answered(cfg, st, a, port, F) ==
  IF a.ok THEN list_status(cfg, st, a.w, port, a.out, _get_service_name(cfg, port), F)
  ELSE list_legacy_answered(cfg, st,
                            run_command(a.w, "is-active", _legacy_service_name(port), F),
                            port, F)

\* the loop body of list_forwards
list_one(cfg, st, port, F) ==
  list_new_answered(cfg, st, run_command(st.w, "is-active", _get_service_name(cfg, port), F),
                    port, F)

RECURSIVE list_loop(_, _, _, _)
\* "for port in getattr(self.config, "forwarded_ports", [])" of list_forwards
list_loop(cfg, st, i, F) ==
  IF i > Len(st.w.ports) THEN st
  ELSE list_loop(cfg, list_one(cfg, st, st.w.ports[i], F), i + 1, F)

\* return forwards
list_return(st) ==
  [w |-> st.w, ok |-> TRUE, msg |-> NoMsg, results |-> st.results, visited |-> st.visited]

list_forwards(cfg, w, F) ==
  list_return(list_loop(cfg, [w |-> w, results |-> <<>>, visited |-> <<>>], 1, F))

(***************************************************************************)
(* The state machine                                                       *)
(***************************************************************************)

VARIABLES
  config,           \* the tunnel configuration: name, listen_ip, remote_forward_ip
  forwarded_ports,  \* config.forwarded_ports
  files,            \* unit files under SYSTEMD_DIR: path |-> text
  active,           \* units systemd reports active
  enabled,          \* units systemd reports enabled
  log,              \* external calls made by the call that has just returned
  ret,              \* what the call that has just returned gave back
  prev,             \* {port} when the call before was a faultless successful create(port)
  phase             \* "idle": no call pending; "done": a call has just returned

vars == <<config, forwarded_ports, files, active, enabled, log, ret, prev, phase>>

NoRet ==
  [op |-> "", port |-> 0, input |-> <<>>, ok |-> TRUE, msg |-> NoMsg,
   results |-> <<>>, visited |-> <<>>]

NoPrev == {}

World ==
  [ports |-> forwarded_ports, files |-> files, active |-> active,
   enabled |-> enabled, log |-> <<>>]

\* no external call of the log failed by a fault
Clean(l) == \A i \in 1..Len(l) : ~l[i].fault

RECURSIVE Perms(_)
\* the duplicate-free lists over the ports of S
Perms(S) ==
  IF S = {} THEN {<<>>}
  ELSE UNION { { <<q>> \o t : t \in Perms(S \ {q}) } : q \in S }

PortLists == UNION { Perms(S) : S \in SUBSET PortPool }

\* an installation made by the old version: one legacy unit per port, running
LegacyFiles(S) ==
  [u \in { _legacy_service_name(q) : q \in S } |->
     SERVICE_TEMPLATE(TunnelName,
                      CHOOSE q \in S : _legacy_service_name(q) = u, IpA, ListenAny)]

Init ==
  /\ config \in ConfigPool
  /\ forwarded_ports \in PortLists
  /\ \E S \in SUBSET (Range(forwarded_ports) \cap LegacyPorts) :
        /\ files = LegacyFiles(S)
        /\ active = DOMAIN files
        /\ enabled = DOMAIN files
  /\ log = <<>>
  /\ ret = NoRet
  /\ prev = NoPrev
  /\ phase = "idle"

\* the call returned r: its effects and its result become the state
Returned(r, op, port, input) ==
  /\ forwarded_ports' = r.w.ports
  /\ files' = r.w.files
  /\ active' = r.w.active
  /\ enabled' = r.w.enabled
  /\ log' = r.w.log
  /\ ret' = [op |-> op, port |-> port, input |-> input, ok |-> r.ok, msg |-> r.msg,
             results |-> r.results, visited |-> r.visited]
  /\ phase' = "done"
  /\ UNCHANGED <<config, prev>>

Single(r) == [w |-> r.w, ok |-> r.ok, msg |-> r.msg, results |-> <<>>, visited |-> <<>>]

CreateForward ==
  /\ phase = "idle"
  /\ \E port \in PortPool :
       \E F \in FaultSets(FaultKeys(config, World, {port}, {"write", "enable --now"},
                                    {"stop", "disable", "unlink"})) :
         Returned(Single(create_forward(config, World, port, F)), "create", port, <<>>)

RemoveForward ==
  /\ phase = "idle"
  /\ \E port \in PortPool :
       \E F \in FaultSets(FaultKeys(config, World, {port}, {"stop", "disable", "unlink"},
                                    {"stop", "disable", "unlink"})) :
         Returned(Single(remove_forward(config, World, port, F)), "remove", port, <<>>)

\* the ports a batch input names
InputPorts(ports_str) ==
  LET toks == TokenTable[ports_str]
  IN { ParseTable[toks[i]].val : i \in { j \in 1..Len(toks) : ParseTable[toks[j]].ok } }

AddMultipleForwards ==
  /\ phase = "idle"
  /\ \E ports_str \in InputPool :
       \E F \in FaultSets(FaultKeys(config, World, InputPorts(ports_str), {"write", "enable --now"},
                                    {"stop", "disable", "unlink"})) :
         Returned(add_multiple_forwards(config, World, ports_str, F), "create_many", 0, ports_str)

RemoveMultipleForwards ==
  /\ phase = "idle"
  /\ \E ports_str \in InputPool :
       \E F \in FaultSets(FaultKeys(config, World, InputPorts(ports_str), {"stop", "disable", "unlink"},
                                    {"stop", "disable", "unlink"})) :
         Returned(remove_multiple_forwards(config, World, ports_str, F), "remove_many", 0, ports_str)

StartAllForwards ==
  /\ phase = "idle"
  /\ \E F \in FaultSets(FaultKeys(config, World, Range(forwarded_ports),
                                  {"write", "enable --now", "start"},
                                  {"stop", "disable", "unlink"})) :
       Returned(start_all_forwards(config, World, F), "start_all", 0, <<>>)

StopAllForwards ==
  /\ phase = "idle"
  /\ \E F \in FaultSets(FaultKeys(config, World, Range(forwarded_ports), {"stop"}, {"stop"})) :
       Returned(stop_all_forwards(config, World, F), "stop_all", 0, <<>>)

RestartAllForwards ==
  /\ phase = "idle"
  /\ \E F \in FaultSets(FaultKeys(config, World, Range(forwarded_ports),
                                  {"write", "enable --now", "restart"},
                                  {"stop", "disable", "unlink"})) :
       Returned(restart_all_forwards(config, World, F), "restart_all", 0, <<>>)

ListForwards ==
  /\ phase = "idle"
  /\ \E F \in FaultSets(FaultKeys(config, World, Range(forwarded_ports),
                                  {"is-active", "is-enabled"}, {"is-active", "is-enabled"})) :
       Returned(list_forwards(config, World, F), "list", 0, <<>>)

\* the caller takes the result; the next call starts from the state left behind
Return ==
  /\ phase = "done"
  /\ phase' = "idle"
  /\ prev' = IF ret.op = "create" /\ ret.ok /\ Clean(log) THEN {ret.port} ELSE NoPrev
  /\ log' = <<>>
  /\ ret' = NoRet
  /\ UNCHANGED <<config, forwarded_ports, files, active, enabled>>

\* the operator edits the tunnel settings between calls
SetConfig ==
  /\ phase = "idle"
  /\ \E c \in ConfigPool \ {config} : config' = c
  /\ prev' = NoPrev
  /\ UNCHANGED <<forwarded_ports, files, active, enabled, log, ret, phase>>

Next ==
  \/ CreateForward
  \/ RemoveForward
  \/ AddMultipleForwards
  \/ RemoveMultipleForwards
  \/ StartAllForwards
  \/ StopAllForwards
  \/ RestartAllForwards
  \/ ListForwards
  \/ Return
  \/ SetConfig

Spec == Init /\ [][Next]_vars

(***************************************************************************)
(* The naming functions on their own: a manager is built for a tunnel name *)
(* and one of them is called.                                              *)
(***************************************************************************)

NamingInit ==
  /\ config \in { [name |-> n, listen_ip |-> ListenAny, remote_forward_ip |-> NoIp] :
                    n \in NameInputs }
  /\ forwarded_ports = <<>>
  /\ files = <<>>
  /\ active = {}
  /\ enabled = {}
  /\ log = <<>>
  /\ ret = NoRet
  /\ prev = NoPrev
  /\ phase = "idle"

\* a naming function, called with port, returned the strings out
Named(op, port, out) ==
  /\ ret' = [NoRet EXCEPT !.op = op, !.port = port, !.input = config.name, !.results = out]
  /\ phase' = "done"
  /\ UNCHANGED <<config, forwarded_ports, files, active, enabled, log, prev>>

\* tname = self._sanitize_unit_part(getattr(self.config, "name", "tunnel")), and
\* _sanitize_unit_part called again on what it returned
SanitizeUnitPart ==
  /\ phase = "idle"
  /\ Named("_sanitize_unit_part", 0,
           << _sanitize_unit_part(config.name),
              _sanitize_unit_part(_sanitize_unit_part(config.name)) >>)

GetServiceName ==
  /\ phase = "idle"
  /\ \E port \in NamePorts : Named("_get_service_name", port, <<CanonicalId(config.name, port)>>)

LegacyServiceName ==
  /\ phase = "idle"
  /\ \E port \in NamePorts : Named("_legacy_service_name", port, <<LegacyId(port)>>)

NamingNext ==
  \/ SanitizeUnitPart
  \/ GetServiceName
  \/ LegacyServiceName
  \/ Return

NamingSpec == NamingInit /\ [][NamingNext]_vars

(***************************************************************************)
(* Properties                                                              *)
(***************************************************************************)

Canon(p) == _get_service_name(config, p)

Legacy(p) == _legacy_service_name(p)

\* the log l holds the external call cmd on unit with outcome ok
Did(l, cmd, unit, ok) ==
  \E i \in 1..Len(l) : l[i].cmd = cmd /\ l[i].unit = unit /\ l[i].ok = ok

\* the log l holds the external call cmd on unit
Tried(l, cmd, unit) == \E i \in 1..Len(l) : l[i].cmd = cmd /\ l[i].unit = unit

\* the external calls of the log that are more than a look at the file system
Effects(l) == {i \in 1..Len(l) : l[i].cmd # "exists"}

Declared == Range(forwarded_ports)

RenderNow(p) ==
  SERVICE_TEMPLATE(config.name, p, config.remote_forward_ip, config.listen_ip)

\* C1: a port enters the declared list only in a call that ran enable --now on its
\* canonical unit with success, as the last external call of a create, appended at
\* the end of the list; a create that reports failure leaves the declared list as
\* it was.
C1_DeclaredOnlyAfterSuccess ==
  [][ phase' = "done" =>
        /\ \A p \in Range(forwarded_ports') \ Range(forwarded_ports) :
             /\ Did(log', "enable --now", Canon(p), TRUE)
             /\ ret'.op \in {"create", "create_many"}
             /\ ret'.op = "create" =>
                  /\ ret'.ok /\ ret'.port = p
                  /\ log'[Len(log')] = [cmd |-> "enable --now", unit |-> Canon(p),
                                        ok |-> TRUE, fault |-> FALSE]
                  /\ forwarded_ports' = Append(forwarded_ports, p)
        /\ (ret'.op = "create" /\ ~ret'.ok) => forwarded_ports' = forwarded_ports
    ]_vars

\* C1 witness: a create has failed at enable --now, after the unit file was written,
\* and its port is not declared
C1_Witness ==
  /\ phase = "done" /\ ret.op = "create" /\ ~ret.ok
  /\ Did(log, "write", Canon(ret.port), TRUE)
  /\ Did(log, "enable --now", Canon(ret.port), FALSE)
  /\ ret.port \notin Declared

\* C2 as stated: remove(port) returns success, and then the port is not declared
\* and neither of its two unit files exists.
C2_RemoveLeavesNoFile ==
  (phase = "done" /\ ret.op = "remove") =>
    /\ ret.ok
    /\ ret.port \notin Declared
    /\ Canon(ret.port) \notin DOMAIN files
    /\ Legacy(ret.port) \notin DOMAIN files

\* C2 amended: remove(port) returns success and the port is not declared; each of
\* its two unit files is gone unless the deletion of that file failed.
C2_RemoveBestEffort ==
  (phase = "done" /\ ret.op = "remove") =>
    /\ ret.ok
    /\ ret.port \notin Declared
    /\ \A u \in {Canon(ret.port), Legacy(ret.port)} :
         u \in DOMAIN files => Did(log, "unlink", u, FALSE)

\* C2 witness: a remove directly after a successful create of the same port has
\* deleted the canonical unit file
C2_Witness ==
  /\ phase = "done" /\ ret.op = "remove" /\ prev = {ret.port}
  /\ Did(log, "unlink", Canon(ret.port), TRUE)
  /\ Canon(ret.port) \notin DOMAIN files

\* C3: a create(port) that directly follows a successful create(port), the
\* configuration unchanged and no external call failing, succeeds and leaves the
\* unit files, the active and enabled units and the declared list as they were:
\* the unit file is the render of the configuration, the unit is enabled and
\* active, and the port is declared once.
C3_CreateIdempotent ==
  [][ (phase = "idle" /\ phase' = "done" /\ ret'.op = "create"
         /\ prev = {ret'.port} /\ Clean(log')) =>
        /\ ret'.ok
        /\ files' = files /\ active' = active /\ enabled' = enabled
        /\ forwarded_ports' = forwarded_ports
        /\ files'[Canon(ret'.port)] = RenderNow(ret'.port)
        /\ Canon(ret'.port) \in active' /\ Canon(ret'.port) \in enabled'
        /\ Cardinality({i \in 1..Len(forwarded_ports') :
                          forwarded_ports'[i] = ret'.port}) = 1
    ]_vars

\* C3 witness: a second create of the port just created has returned
C3_Witness ==
  /\ phase = "done" /\ ret.op = "create" /\ ret.ok /\ prev = {ret.port} /\ Clean(log)
  /\ Did(log, "write", Canon(ret.port), TRUE)

\* the call that has just returned found the legacy unit file of p present and the
\* canonical unit file of p absent
LegacyOnly(p) ==
  /\ Did(log, "exists", _legacy_service_path(p), TRUE)
  /\ Did(log, "exists", _get_service_path(config, p), FALSE)

Migrated(p) ==
  /\ Legacy(p) \notin active /\ Legacy(p) \notin enabled /\ Legacy(p) \notin DOMAIN files
  /\ Canon(p) \in DOMAIN files /\ Canon(p) \in enabled /\ Canon(p) \in active

\* C4 as stated: start_all, no external call failing, leaves every declared port
\* that had a legacy unit file and no canonical one with the legacy unit stopped,
\* disabled and deleted and the canonical unit written, enabled and started.
C4_StartMigrates ==
  (phase = "done" /\ ret.op = "start_all" /\ Clean(log)) =>
    \A p \in Declared : LegacyOnly(p) => Migrated(p)

\* C4 amended: the same, when remote_forward_ip is configured.
C4_StartMigratesWhenConfigured ==
  (phase = "done" /\ ret.op = "start_all" /\ Clean(log)
     /\ config.remote_forward_ip # NoIp) =>
    \A p \in Declared : LegacyOnly(p) => Migrated(p)

\* C4 witness: start_all has migrated a port
C4_Witness ==
  /\ phase = "done" /\ ret.op = "start_all" /\ Clean(log)
  /\ \E p \in Declared :
       /\ LegacyOnly(p) /\ Migrated(p)
       /\ Did(log, "stop", Legacy(p), TRUE)
       /\ Did(log, "unlink", Legacy(p), TRUE)

\* the call that has just returned ran _migrate_legacy_unit for p
MigrationRan(p) ==
  /\ ret.op \in {"create", "create_many", "start_all", "restart_all"}
  /\ Tried(log, "exists", _legacy_service_path(p))

\* C5: after a call that ran the legacy migration for a port, the legacy unit of
\* that port is not active (so it is never active together with the canonical one).
C5_LegacyInactiveAfterMigration ==
  phase = "done" => \A p \in PortPool : MigrationRan(p) => Legacy(p) \notin active

\* C6: create_many and remove_many return success with one line per non-empty
\* trimmed token, in input order; a token that is no integer gets the line
\* "Port '<token>': Invalid port number" and no per-port operation, and the tokens
\* after it are still processed; create_many on an empty declared list, with
\* remote_forward_ip set and no external call failing, leaves exactly the ports of
\* the parseable tokens declared ("8080, abc, 9090" gives 8080 and 9090).
C6_BatchTranscript ==
  [][ (phase' = "done" /\ ret'.op \in {"create_many", "remove_many"}) =>
        LET toks == TokenTable[ret'.input]
            good == {i \in 1..Len(toks) : ParseTable[toks[i]].ok}
        IN /\ ret'.ok
           /\ Len(ret'.results) = Len(toks)
           /\ \A i \in 1..Len(toks) :
                IF i \in good
                  THEN /\ ret'.results[i].fmt = "Port {port}: {msg}"
                       /\ ret'.results[i].port = PortText(ParseTable[toks[i]].val)
                  ELSE ret'.results[i] =
                         Line("Port '{port_str}': Invalid port number", toks[i], NoMsg)
           /\ ret'.visited = Pick([i \in 1..Len(toks) |-> ParseTable[toks[i]].val], good)
           /\ (ret'.op = "create_many" /\ forwarded_ports = <<>> /\ Clean(log')
                 /\ config.remote_forward_ip # NoIp) =>
                Range(forwarded_ports') = {ParseTable[toks[i]].val : i \in good}
           /\ (ret'.input = InputExample /\ ret'.op = "create_many") =>
                /\ Len(ret'.results) = 3
                /\ ret'.results[2] =
                     Line("Port '{port_str}': Invalid port number", <<"a", "b", "c">>, NoMsg)
                /\ ret'.visited = <<8080, 9090>>
                /\ (forwarded_ports = <<>> /\ Clean(log') /\ config.remote_forward_ip # NoIp)
                     => forwarded_ports' = <<8080, 9090>>
    ]_vars

\* C6 witness: create_many("8080, abc, 9090") has returned three lines and left
\* 8080 and 9090 declared
C6_Witness ==
  /\ phase = "done" /\ ret.op = "create_many" /\ ret.input = InputExample
  /\ Len(ret.results) = 3 /\ Clean(log)
  /\ ret.results[1].msg.fmt = "Port forward for {port} created (listen {listen_ip} -> {remote_ip}:{port})"
  /\ ret.results[3].msg.fmt = "Port forward for {port} created (listen {listen_ip} -> {remote_ip}:{port})"
  /\ forwarded_ports = <<8080, 9090>>

\* C7: start_all, stop_all and restart_all return success after going once through
\* every port declared when they were called, in declared order, whatever fails.
C7_AllVisitEveryPort ==
  [][ (phase' = "done" /\ ret'.op \in {"start_all", "stop_all", "restart_all"}) =>
        (ret'.ok /\ ret'.visited = forwarded_ports) ]_vars

\* C7 witness: start_all failed on the first of two ports and recreated the second
C7_Witness ==
  /\ phase = "done" /\ ret.op = "start_all" /\ Len(ret.visited) = 2
  /\ Len(ret.results) = 2
  /\ ret.results[1].fmt \in FailureFmts
  /\ ret.results[2].fmt = "Port {port}: recreated and started"

\* C8: a create while remote_forward_ip is not configured fails with the
\* configuration error and does nothing: no external call, no change of the unit
\* files, of the units or of the declared list.
C8_CreateNeedsRemoteIp ==
  [][ (phase' = "done" /\ ret'.op = "create" /\ config.remote_forward_ip = NoIp) =>
        /\ ~ret'.ok
        /\ ret'.msg = Msg("Remote forward IP not configured", <<>>)
        /\ log' = <<>>
        /\ UNCHANGED <<forwarded_ports, files, active, enabled>> ]_vars

\* C8 witness: a create has been refused while the legacy unit of its port exists
C8_Witness ==
  /\ phase = "done" /\ ret.op = "create" /\ ~ret.ok
  /\ config.remote_forward_ip = NoIp
  /\ Legacy(ret.port) \in DOMAIN files

ConfigErrorLine(line) ==
  \/ line.fmt = "Port {port}: remote_forward_ip not set"
  \/ /\ line.fmt = "Port {port}: failed to recreate - {msg}"
     /\ line.msg = Msg("Remote forward IP not configured", <<>>)

\* C9: restart_all while remote_forward_ip is not configured gives every declared
\* port a configuration-error line and attempts no side effect: no controller
\* command, no unit file written or deleted.
C9_RestartWithoutIpNoEffects ==
  (phase = "done" /\ ret.op = "restart_all" /\ config.remote_forward_ip = NoIp) =>
    /\ Len(ret.results) = Len(ret.visited)
    /\ \A i \in 1..Len(ret.results) :
         /\ ret.results[i].port = PortText(ret.visited[i])
         /\ ConfigErrorLine(ret.results[i])
    /\ Effects(log) = {}

LineOf(p) == ret.results[CHOOSE i \in 1..Len(ret.results) : ret.results[i].port = PortText(p)]

\* C10: in start_all and restart_all, a declared port whose canonical unit file is
\* absent gets a full create and no start or restart; when the create succeeds the
\* canonical unit file exists, the unit is enabled and active, and the port is
\* still declared.
C10_SelfHealing ==
  (phase = "done" /\ ret.op \in {"start_all", "restart_all"}) =>
    \A p \in Range(ret.visited) :
      Did(log, "exists", _get_service_path(config, p), FALSE) =>
        /\ \E i \in 1..Len(ret.results) : ret.results[i].port = PortText(p)
        /\ LineOf(p).fmt \in {"Port {port}: recreated and started",
                              "Port {port}: failed to recreate - {msg}"}
        /\ ~Tried(log, "start", Canon(p)) /\ ~Tried(log, "restart", Canon(p))
        /\ (config.remote_forward_ip # NoIp) =>
             /\ Tried(log, "write", Canon(p))
             /\ (LineOf(p).fmt = "Port {port}: recreated and started"
                   <=> Did(log, "enable --now", Canon(p), TRUE))
        /\ LineOf(p).fmt = "Port {port}: recreated and started" =>
             /\ Canon(p) \in DOMAIN files /\ files[Canon(p)] = RenderNow(p)
             /\ Canon(p) \in enabled /\ Canon(p) \in active
             /\ p \in Declared

\* C10 witness: restart_all has recreated a declared port that had no unit file
C10_Witness ==
  /\ phase = "done" /\ ret.op = "restart_all"
  /\ \E p \in Range(ret.visited) :
       /\ Did(log, "exists", _get_service_path(config, p), FALSE)
       /\ Did(log, "exists", _legacy_service_path(p), FALSE)
       /\ LineOf(p).fmt = "Port {port}: recreated and started"
       /\ Canon(p) \in active

\* the record list() returned for port p
RecordOf(p) == ret.results[CHOOSE i \in 1..Len(ret.results) : ret.results[i].port = p]

\* the external call cmd on unit was not made to fail by a fault
NoFault(l, cmd, unit) ==
  \A i \in 1..Len(l) : (l[i].cmd = cmd /\ l[i].unit = unit) => ~l[i].fault

\* C11: list() returns one record per declared port, in declared order.  The status
\* is what is-active printed for the canonical unit when that query succeeded (and
\* then the legacy unit is not asked), else what it printed for the legacy unit
\* when that query succeeded, else "inactive"; is-enabled is asked of the unit that
\* gave the status (the canonical one when none did) and the enabled field is its
\* output, "disabled" when it failed.  A port whose canonical query failed and
\* whose legacy unit is active and answers is reported active.
C11_ListStatus ==
  (phase = "done" /\ ret.op = "list") =>
    /\ Len(ret.results) = Len(forwarded_ports)
    /\ \A i \in 1..Len(forwarded_ports) : ret.results[i].port = forwarded_ports[i]
    /\ \A p \in Declared :
         LET canonOk == Did(log, "is-active", Canon(p), TRUE)
             legacyOk == Did(log, "is-active", Legacy(p), TRUE)
             asked == IF ~canonOk /\ legacyOk THEN Legacy(p) ELSE Canon(p)
         IN /\ Tried(log, "is-active", Canon(p))
            /\ canonOk => ~Tried(log, "is-active", Legacy(p))
            /\ ~canonOk => Tried(log, "is-active", Legacy(p))
            /\ RecordOf(p).status =
                 IF canonOk \/ legacyOk THEN ActiveOut ELSE Inactive
            /\ Tried(log, "is-enabled", asked)
            /\ \A u \in {Canon(p), Legacy(p)} \ {asked} : ~Tried(log, "is-enabled", u)
            /\ RecordOf(p).enabled =
                 IF Did(log, "is-enabled", asked, TRUE) THEN EnabledOut ELSE Disabled
            /\ (Did(log, "is-active", Canon(p), FALSE) /\ Legacy(p) \in active
                  /\ NoFault(log, "is-active", Legacy(p))) =>
                 RecordOf(p).status = ActiveOut /\ RecordOf(p).status # Inactive

\* C11 witness: list() has reported a port from its legacy unit, which is active
\* while the canonical unit is not known
C11_Witness ==
  /\ phase = "done" /\ ret.op = "list" /\ Clean(log)
  /\ \E p \in Declared :
       /\ Canon(p) \notin DOMAIN files /\ Legacy(p) \in active
       /\ Did(log, "is-active", Canon(p), FALSE)
       /\ Did(log, "is-enabled", Legacy(p), TRUE)
       /\ RecordOf(p).status = ActiveOut /\ RecordOf(p).enabled = EnabledOut

AllOps == {"start_all", "stop_all", "restart_all"}

\* C12: start_all, stop_all and restart_all called with no port declared return
\* (True, "No port forwards configured"), no transcript line, and make no external
\* call: no controller command, no file operation, nothing changed.
C12_EmptyDeclared ==
  [][ (phase' = "done" /\ ret'.op \in AllOps /\ forwarded_ports = <<>>) =>
        /\ ret'.ok
        /\ ret'.msg = Msg("No port forwards configured", <<>>)
        /\ ret'.msg # NoMsg
        /\ ret'.results = <<>>
        /\ log' = <<>>
        /\ UNCHANGED <<forwarded_ports, files, active, enabled>> ]_vars

\* C12 witness: restart_all has returned with no port declared while unit files exist
C12_Witness ==
  /\ phase = "done" /\ ret.op = "restart_all" /\ forwarded_ports = <<>>
  /\ ret.msg = Msg("No port forwards configured", <<>>)
  /\ files # <<>>

\* the sanitised form of the tunnel name of the call that has just returned
Tname == _sanitize_unit_part(ret.input)

\* C13 as stated: canonical_id is injective on (sanitised name, port), the "-" that
\* joins name and port not being a character of the sanitised name.
C13_InjectiveByDelimiter ==
  (phase = "done" /\ ret.op = "_get_service_name") =>
    /\ \A c \in CanonicalIds :
         ret.results[1] = c.id => (Tname = c.tname /\ ret.port = c.port)
    /\ "-" \notin Range(Tname)

\* C13 amended: canonical_id is injective on (sanitised name, port): equal
\* identifiers have equal sanitised names and equal ports.  The sanitised name is
\* not empty, has no "-" at either end and no two "-" in a row, so the identifier
\* splits at the "-" before the port text although "-" occurs inside names.
C13_Injective ==
  (phase = "done" /\ ret.op = "_get_service_name") =>
    /\ \A c \in CanonicalIds :
         ret.results[1] = c.id => (Tname = c.tname /\ ret.port = c.port)
    /\ ret.results[1] = UnitPrefix \o Tname \o <<"-">> \o IntStr(ret.port) \o UnitSuffix
    /\ Tname # <<>> /\ Head(Tname) # "-" /\ Tname[Len(Tname)] # "-"
    /\ \A i \in 1..(Len(Tname) - 1) : ~(Tname[i] = "-" /\ Tname[i + 1] = "-")

\* C13 witness: the identifier of a name with a "-" inside and a negative port has
\* been computed, and another name gives the same identifier
C13_Witness ==
  /\ phase = "done" /\ ret.op = "_get_service_name" /\ ret.port < 0
  /\ "-" \in Range(Tname)
  /\ \E c \in CanonicalIds : c.name # ret.input /\ c.id = ret.results[1]

\* C14: sanitising is idempotent: sanitising the sanitised name gives it back, for
\* every name, the empty one, those of blanks only and those of replaced characters
\* only included; these give "tunnel", which is a fixed point.
C14_SanitizeIdempotent ==
  (phase = "done" /\ ret.op = "_sanitize_unit_part") =>
    /\ ret.results[2] = ret.results[1]
    /\ (\A i \in 1..Len(ret.input) : ret.input[i] \in {" ", "-"}) =>
         ret.results[1] = FallbackName
    /\ ret.input = FallbackName => ret.results[1] = FallbackName

\* C14 witness: a name of blanks and dashes only has been sanitised to "tunnel"
C14_Witness ==
  /\ phase = "done" /\ ret.op = "_sanitize_unit_part"
  /\ Len(ret.input) = MaxNameLen /\ " " \in Range(ret.input) /\ "-" \in Range(ret.input)
  /\ ret.results = <<FallbackName, FallbackName>>

\* C20: the two naming schemes never collide: the canonical identifier of no tunnel
\* name and port is the legacy identifier of a port, so that a command issued on a
\* legacy identifier is never a command on a canonical unit.
C20_SchemesDisjoint ==
  /\ (phase = "done" /\ ret.op = "_legacy_service_name") =>
       \A c \in CanonicalIds : c.id # ret.results[1]
  /\ (phase = "done" /\ ret.op = "_get_service_name") =>
       \A l \in LegacyIds : l.id # ret.results[1]

\* C20 witness: the legacy identifier of 15 has been computed, the name "1" with
\* port 5 being among the canonical identifiers it is compared with
C20_Witness ==
  /\ phase = "done" /\ ret.op = "_legacy_service_name"
  /\ IntStr(ret.port) = <<"1", "5">>
  /\ \E c \in CanonicalIds : c.tname = <<"1">> /\ IntStr(c.port) = <<"5">>

\* entry i of the log l is a transition of the canonical unit of p: its file is
\* written, or it is enabled, started or restarted
CanonTransition(l, i, p) ==
  /\ l[i].unit = Canon(p)
  /\ l[i].cmd \in {"write", "enable --now", "start", "restart"}

\* entry j of the log l is the migration of p looking for the legacy unit file
LegacyProbe(l, j, p) == l[j].cmd = "exists" /\ l[j].unit = Legacy(p)

\* C15: in create, start_all and restart_all the migration of a port runs before
\* the canonical unit file of the port is written and before the canonical unit is
\* enabled, started or restarted; for a port without legacy unit file the migration
\* issues no command and changes nothing.
C15_MigrationFirst ==
  [][(phase' = "done" /\ ret'.op \in {"create", "create_many", "start_all", "restart_all"}) =>
       \A p \in PortPool :
         /\ \A i \in 1..Len(log') :
              CanonTransition(log', i, p) => \E j \in 1..(i - 1) : LegacyProbe(log', j, p)
         /\ Legacy(p) \notin DOMAIN files =>
              /\ \A i \in 1..Len(log') : log'[i].unit = Legacy(p) => log'[i].cmd = "exists"
              /\ \A j \in 1..Len(log') :
                   LegacyProbe(log', j, p) =>
                     (j = Len(log') \/ (log'[j + 1].unit = Canon(p)
                                         /\ log'[j + 1].cmd \in {"write", "exists"}))
              /\ Legacy(p) \notin DOMAIN files'
              /\ (Legacy(p) \in active') = (Legacy(p) \in active)
              /\ (Legacy(p) \in enabled') = (Legacy(p) \in enabled)
    ]_vars

\* C15 witness: start_all has met a port with a legacy unit file and a port without:
\* the legacy unit of the first was stopped before its canonical unit file was
\* written, the second was started after the probe alone
C15_Witness ==
  /\ phase = "done" /\ ret.op = "start_all"
  /\ \E p, q \in Declared :
       /\ \E i, j \in 1..Len(log) :
            /\ i < j
            /\ log[i].cmd = "stop" /\ log[i].unit = Legacy(p) /\ log[i].ok
            /\ log[j].cmd = "write" /\ log[j].unit = Canon(p) /\ log[j].ok
       /\ \E j \in 1..(Len(log) - 2) :
            /\ LegacyProbe(log, j, q) /\ ~log[j].ok
            /\ log[j + 2].cmd = "start" /\ log[j + 2].unit = Canon(q) /\ log[j + 2].ok

\* C16: stop_all runs, for every declared port in turn, a stop of the canonical unit
\* and a stop of the legacy unit; it reports success whatever the legacy stop
\* answers and none of its lines reports a failure; when no stop fails by a fault,
\* no canonical or legacy unit of a declared port is active afterwards; the unit
\* files, the enabled units and the declared ports are as before.
C16_StopAll ==
  [][(phase' = "done" /\ ret'.op = "stop_all") =>
       /\ Len(log') = 2 * Len(forwarded_ports)
       /\ \A i \in 1..Len(forwarded_ports) :
            /\ log'[2 * i - 1].cmd = "stop" /\ log'[2 * i - 1].unit = Canon(forwarded_ports[i])
            /\ log'[2 * i].cmd = "stop" /\ log'[2 * i].unit = Legacy(forwarded_ports[i])
       /\ ret'.ok
       /\ \A k \in 1..Len(ret'.results) :
            ret'.results[k].fmt = "Port {port}: stopped ({new_unit})"
       /\ Clean(log') => \A p \in Declared : Canon(p) \notin active' /\ Legacy(p) \notin active'
       /\ files' = files /\ enabled' = enabled /\ forwarded_ports' = forwarded_ports
    ]_vars

\* C16 witness: stop_all has stopped the canonical unit of a port, which stays
\* enabled with its file, while the stop of the legacy unit of a port has failed
C16_Witness ==
  /\ phase = "done" /\ ret.op = "stop_all" /\ ret.ok
  /\ \E q \in Declared :
       /\ Did(log, "stop", Canon(q), TRUE)
       /\ Canon(q) \notin active /\ Canon(q) \in enabled /\ Canon(q) \in DOMAIN files
  /\ \E p \in Declared, i \in 1..Len(log) :
       log[i].cmd = "stop" /\ log[i].unit = Legacy(p) /\ log[i].fault

\* the lines of restart_all that report a port as served
ServedFmts == {"Port {port}: restarted", "Port {port}: recreated and started"}

\* C17: after restart_all the canonical unit file of every declared port reported
\* "restarted" or "recreated and started" is the render of the configuration (name,
\* listen_ip, remote_forward_ip) of that moment; start_all leaves every canonical
\* unit file that exists as it is, stale or not.
C17_RestartRenders ==
  [][/\ (phase' = "done" /\ ret'.op = "restart_all") =>
          \A p \in Declared, k \in 1..Len(ret'.results) :
            (ret'.results[k].port = PortText(p) /\ ret'.results[k].fmt \in ServedFmts) =>
              /\ Canon(p) \in DOMAIN files'
              /\ files'[Canon(p)] =
                   SERVICE_TEMPLATE(config.name, p, config.remote_forward_ip, config.listen_ip)
     /\ (phase' = "done" /\ ret'.op = "start_all") =>
          \A p \in Declared :
            Canon(p) \in DOMAIN files =>
              (Canon(p) \in DOMAIN files' /\ files'[Canon(p)] = files[Canon(p)])
    ]_vars

\* C17 witness: after a change of the configuration restart_all has rewritten and
\* restarted the unit of one port, while the write for another port failed and its
\* unit file is still the one of the old configuration
C17_Witness ==
  /\ phase = "done" /\ ret.op = "restart_all"
  /\ \E p, q \in Declared :
       /\ LineOf(p).fmt = "Port {port}: restarted"
       /\ files[Canon(p)] = RenderNow(p)
       /\ LineOf(q).fmt = "Port {port}: failed to write service file - {e}"
       /\ Canon(q) \in DOMAIN files /\ files[Canon(q)] # RenderNow(q)

\* the lines of the transcript that report port p
LinesOf(p) == {k \in 1..Len(ret.results) : ret.results[k].port = PortText(p)}

\* C18: after start_all, stop_all and restart_all the transcript has exactly one
\* line for every declared port, whatever happened to the port, so that "No port
\* forwards configured" is the answer exactly when no port is declared.
C18_OneLinePerPort ==
  (phase = "done" /\ ret.op \in AllOps) =>
    /\ Len(ret.results) = Len(forwarded_ports)
    /\ \A p \in Declared : Cardinality(LinesOf(p)) = 1
    /\ (ret.msg = Msg("No port forwards configured", <<>>)) <=> (forwarded_ports = <<>>)

\* C19: list, start_all, stop_all and restart_all leave the set of declared ports
\* as it was, on the paths that fall back to create and on the failure paths too;
\* the set changes in create, create_many, remove and remove_many only.
C19_DeclaredUnchanged ==
  [][/\ (phase' = "done" /\ ret'.op \in AllOps \cup {"list"}) =>
          Range(forwarded_ports') = Range(forwarded_ports)
     /\ Range(forwarded_ports') # Range(forwarded_ports) =>
          (phase' = "done" /\ ret'.op \in {"create", "create_many", "remove", "remove_many"})
    ]_vars

\* C19 witness: start_all has recreated the unit of one declared port through create
\* and failed to recreate that of another; both are declared
C19_Witness ==
  /\ phase = "done" /\ ret.op = "start_all"
  /\ \E p, q \in Declared :
       /\ LineOf(p).fmt = "Port {port}: recreated and started"
       /\ LineOf(q).fmt = "Port {port}: failed to recreate - {msg}"

====
